---- MODULE Spec2Model ----
(***************************************************************************)
(* Claim verification pipeline of backend/verification_service.py:         *)
(* VerificationService.verify_claim and the four helpers it awaits         *)
(* (generate_search_queries, search_trusted_sources,                       *)
(* calculate_semantic_similarity, _determine_verdict).                     *)
(*                                                                         *)
(* One behaviour is one invocation of verify_claim.  Every await of an     *)
(* external capability is one step; what the capability answers (raise,    *)
(* empty, free text, JSON of some shape) is chosen nondeterministically.   *)
(* A Python exception is modelled as a returned record with raised = TRUE  *)
(* that the callers' try/except blocks inspect.                            *)
(***************************************************************************)
EXTENDS Integers, Sequences, FiniteSets, TLC

VARIABLES
    claim,          \* verify_claim's argument claim: a text (sequence of tokens)
    claim_id,       \* verify_claim's argument claim_id
    pc,             \* position inside verify_claim
    queries,        \* local queries
    qi,             \* position of the `for query in queries` loop
    all_sources,    \* local all_sources
    si,             \* position of the `for source in all_sources` loop
    supporting,     \* local supporting
    contradicting,  \* local contradicting
    returned,       \* "none" while running, then "value" or "raised"
    result,         \* the mapping verify_claim returned
    response,       \* what chat.send_message gave generate_search_queries or
                    \* _determine_verdict, until the next helper is awaited
    planner_calls,  \* number of generate_search_queries calls made
    search_calls,   \* number of search_trusted_sources calls made
    search_failed,  \* number of those in which chat.send_message raised
    delays,         \* number of asyncio.sleep(0.5) pacing delays completed
    scorer_calls,   \* number of calculate_semantic_similarity calls made
    verdict_calls,  \* number of _determine_verdict calls made
    table,          \* self.trusted_sources of the VerificationService
    suspended,      \* the frames of the other verify_claim invocations of the
                    \* service, each waiting at an await
    endpoint        \* the frame of the /verify endpoint (server.py)

vars == <<claim, claim_id, pc, queries, qi, all_sources, si, supporting,
          contradicting, returned, result, response, planner_calls, search_calls,
          search_failed, delays, scorer_calls, verdict_calls, table, suspended,
          endpoint>>

(***************************************************************************)
(* Bounds of the model.                                                    *)
(***************************************************************************)
\* longest JSON array or JSON string the query planner's capability answers
MaxPlanLen == 4
\* most evidence items gathered over all queries of one invocation
MaxSources == 4
\* most evidence items the aggregation stage starts with in SpecAggregate
MaxGathered == 7
\* longest text drawn over the vocabulary in SpecLexical
MaxTextLen == 3
\* most evidence items either invocation gathers in SpecConcurrent
MaxInterleavedItems == 1
\* most claims nlp_service.extract_claims returns in SpecEndpoint
MaxExtracted == 6

(***************************************************************************)
(* Texts.  A text is a sequence of whitespace-delimited tokens.            *)
(***************************************************************************)
Min(a, b) == IF a < b THEN a ELSE b
Max(a, b) == IF a > b THEN a ELSE b

ClaimA == <<"The", "sky">>
ClaimB == <<"the", "sky", "is", "blue">>
\* the calls of verify_claim the model makes: <<claim, claim_id>>
Calls == {<<ClaimA, "id-1">>, <<ClaimB, "id-2">>}

\* str.lower() on one token
Lower(tok) == IF tok = "The" THEN "the" ELSE tok

\* set(text.lower().split())
WordSet(text) == {Lower(text[i]) : i \in 1..Len(text)}

\* seq[:n]
Prefix(seq, n) == SubSeq(seq, 1, Min(n, Len(seq)))

\* the elements of a list
Range(seq) == {seq[i] : i \in 1..Len(seq)}

(***************************************************************************)
(* Responses of the reasoning capability (LlmChat.send_message) and their  *)
(* parsing: strip, optional code fence removal, json.loads.                *)
(*   fence: "none"   no code fence                                         *)
(*          "bare"   ```\n ... \n```                                       *)
(*          "json"   ```json\n ... \n```                                   *)
(*          "other"  ```python\n ... \n``` (the regex leaves the opening)  *)
(*   kind:  "empty" (None or ''), "garbage" (not JSON), or the type of the *)
(*          JSON value: "null", "number", "string", "array", "object".     *)
(***************************************************************************)
Fences == {"none", "bare", "json", "other"}

\* re.sub(r'^```(?:json)?\n', '', ...) and re.sub(r'\n```$', '', ...):
\* TRUE when what is left is the bare body
FenceStripped(fence) == fence \in {"none", "bare", "json"}

\* json.loads(json_text) raises JSONDecodeError
JSONDecodeError(r) == ~FenceStripped(r.fence) \/ r.kind = "garbage"

\* the type of json.loads(json_text) when it does not raise
Loads(r) == r.kind

\* a response of chat.send_message (raises = TRUE: the exception it raised).
\* elems: the elements of a JSON array, the characters of a JSON string;
\* the other fields: the keys of a JSON object answered to _determine_verdict
NoResponse ==
    [stage |-> "none", raises |-> FALSE, fence |-> "none", kind |-> "empty",
     elems |-> <<>>, has_verdict |-> FALSE, verdict |-> "",
     conf_kind |-> "missing", conf |-> 0, has_explanation |-> FALSE]

(***************************************************************************)
(* Query Planner: generate_search_queries.                                 *)
(***************************************************************************)
\* the i-th query of a JSON array, the i-th character of a JSON string
QueryText(i) == <<"query", ToString(i)>>
CharText(i) == <<ToString(i)>>
QueryArray(n) == [i \in 1..n |-> QueryText(i)]
CharString(n) == [i \in 1..n |-> CharText(i)]

PlanReply(raises, fence, kind, elems) ==
    [NoResponse EXCEPT !.stage = "plan", !.raises = raises, !.fence = fence,
                       !.kind = kind, !.elems = elems]

PlannerOutcomes ==
    {PlanReply(TRUE, "none", "empty", <<>>),
     PlanReply(FALSE, "none", "empty", <<>>),
     PlanReply(FALSE, "none", "garbage", <<>>),
     PlanReply(FALSE, "json", "garbage", <<>>),
     PlanReply(FALSE, "none", "null", <<>>),
     PlanReply(FALSE, "none", "number", <<>>),
     PlanReply(FALSE, "bare", "object", <<>>)}
    \cup {PlanReply(FALSE, "none", "array", QueryArray(n)) : n \in 0..MaxPlanLen}
    \cup {PlanReply(FALSE, f, "array", QueryArray(2)) : f \in Fences}
    \cup {PlanReply(FALSE, "none", "string", CharString(MaxPlanLen))}

\* the slice taken without its bound
QueriesSlice_Untruncated(parsed) == parsed

\* line 80: queries[:3]
QueriesSlice(parsed) == Prefix(parsed, 3)

\* lines 48-89; value is the returned object as the caller's for loop sees it
generate_search_queries(c, r) ==
    IF r.raises
    THEN [raised |-> FALSE, value |-> <<c>>]        \* except Exception (87-89)
    ELSE IF r.kind = "empty"
    THEN [raised |-> FALSE, value |-> <<c>>]        \* `if response` fails (85)
    ELSE IF JSONDecodeError(r)
    THEN [raised |-> FALSE, value |-> <<c>>]        \* except JSONDecodeError (81-83)
    ELSE IF Loads(r) \in {"null", "number"}
    THEN [raised |-> FALSE, value |-> <<c>>]        \* len() raises TypeError (79, 87)
    ELSE IF Loads(r) = "object"
    THEN [raised |-> FALSE, value |-> <<c>>]        \* dict[:3] raises (80, 87)
    ELSE [raised |-> FALSE, value |-> QueriesSlice(r.elems)]    \* list or str

(***************************************************************************)
(* Evidence Source: search_trusted_sources.                                *)
(***************************************************************************)
\* self.trusted_sources as __init__ builds it (lines 20-46), in dict order
trusted_sources ==
    <<[name |-> "PIB Fact Check", credibility |-> 95],
      [name |-> "Alt News", credibility |-> 90],
      [name |-> "BoomLive", credibility |-> 90],
      [name |-> "The Hindu", credibility |-> 85],
      [name |-> "PTI", credibility |-> 88]>>

\* trusted_name.lower() in source_name.lower(), for the source names of the model
NameContains(source_name, trusted_name) ==
    <<source_name, trusted_name>> \in
        {<<"PTI", "PTI">>, <<"pti news", "PTI">>, <<"The Hindu", "The Hindu">>}

\* lines 145-152: the credibility of the first trusted source whose name the
\* item's source_name contains, 70 when there is none
CredibilityOf(source_name) ==
    LET hits == {k \in 1..Len(table) : NameContains(source_name, table[k].name)}
    IN IF hits = {} THEN 70
       ELSE table[CHOOSE k \in hits : \A j \in hits : k <= j].credibility

RtSky == <<"the", "sky">>

\* one element of the JSON array the Evidence Source answers.
\*   is_dict      the element is a JSON object
\*   name_is_str  its source_name is a string (or missing)
\*   rt_kind      "text", "missing" (no relevant_text key) or "nontext"
\*                (relevant_text is null, a number, a boolean or an object)
RawItem(name, stance, rt_kind, text) ==
    [is_dict |-> TRUE, name_is_str |-> TRUE, source_name |-> name,
     stance |-> stance, rt_kind |-> rt_kind, relevant_text |-> text]

EvidenceItems ==
    {RawItem("PTI", "supports", "text", RtSky),
     RawItem("Blog", "contradicts", "text", RtSky)}

\* items the model lets the Evidence Source answer one at a time: a neutral one
\* without relevant_text, one whose stance is none of the three (no stance
\* key), one whose relevant_text is not text
OddItems ==
    {RawItem("The Hindu", "neutral", "missing", <<>>),
     RawItem("Blog", "", "text", RtSky),
     RawItem("pti news", "supports", "nontext", <<>>)}

NotADict == [RawItem("", "", "missing", <<>>) EXCEPT !.is_dict = FALSE]
BadName == [RawItem("", "supports", "text", RtSky) EXCEPT !.name_is_str = FALSE]

SeqsUpTo(S, n) == UNION {[1..k -> S] : k \in 0..n}

SearchReply(raises, fence, kind, items) ==
    [raises |-> raises, fence |-> fence, kind |-> kind, items |-> items]

\* what the Evidence Source may answer when at most room more items fit the model.
\* A JSON object or string is given by its keys or characters (items: any
\* sequence of that length).
SearchOutcomes(room) ==
    {SearchReply(TRUE, "none", "empty", <<>>),
     SearchReply(FALSE, "none", "empty", <<>>),
     SearchReply(FALSE, "none", "garbage", <<>>),
     SearchReply(FALSE, "other", "array", <<>>),
     SearchReply(FALSE, "none", "null", <<>>),
     SearchReply(FALSE, "none", "object", <<>>),
     SearchReply(FALSE, "none", "object", <<NotADict>>),
     SearchReply(FALSE, "none", "string", <<NotADict>>),
     SearchReply(FALSE, "json", "array", <<>>)}
    \cup (IF room >= 1
          THEN {SearchReply(FALSE, "bare", "array", <<it>>) : it \in OddItems}
          ELSE {})
    \cup {SearchReply(FALSE, "none", "array", items) : items \in SeqsUpTo(EvidenceItems, room)}
    \cup (IF room >= 2
          THEN {SearchReply(FALSE, "none", "array", <<it, bad>>) :
                    it \in EvidenceItems, bad \in {NotADict, BadName}}
          ELSE {})

\* an evidence item as search_trusted_sources returns it (the items of the
\* model carry no credibility_score or similarity_score key of their own)
Annotated(raw) ==
    [source_name |-> raw.source_name, stance |-> raw.stance,
     rt_kind |-> raw.rt_kind, relevant_text |-> raw.relevant_text,
     credibility_score |-> CredibilityOf(raw.source_name),
     has_similarity |-> FALSE, similarity_score |-> [n |-> 0, d |-> 1]]

\* lines 134-161: the response is parsed and annotated
SearchResults(r) ==
    IF r.kind = "empty"
    THEN [raised |-> FALSE, value |-> <<>>]         \* `if response` fails (161)
    ELSE IF JSONDecodeError(r)
    THEN [raised |-> FALSE, value |-> <<>>]         \* except JSONDecodeError (157-159)
    ELSE IF Loads(r) \in {"null", "number"}
    THEN [raised |-> FALSE, value |-> <<>>]         \* not iterable (144, 163)
    ELSE IF Loads(r) \in {"object", "string"}
    THEN [raised |-> FALSE, value |-> <<>>]         \* keys and characters have no .get
                                                    \* (145, 163); empty: nothing to extend
    ELSE IF \E i \in 1..Len(r.items) : ~r.items[i].is_dict \/ ~r.items[i].name_is_str
    THEN [raised |-> FALSE, value |-> <<>>]         \* AttributeError (145, 147, 163)
    ELSE [raised |-> FALSE, value |-> [i \in 1..Len(r.items) |-> Annotated(r.items[i])]]

\* the annotation loop remembering the default rating of each source it does
\* not know
TrustedSourcesAfter_Remembers(tbl, results) ==
    tbl \o SelectSeq([i \in 1..Len(results) |->
                         [name |-> results[i].source_name, credibility |-> 70]],
                     LAMBDA e : \A k \in 1..Len(tbl) : ~NameContains(e.name, tbl[k].name))

\* lines 145-152: self.trusted_sources after the annotation loop (the loop reads
\* .items() and trusted_data['credibility'] and assigns to the result only)
TrustedSourcesAfter(tbl, results) == tbl

\* the call without its except block: a failure of send_message propagates
search_trusted_sources_Propagates(r) ==
    IF r.raises THEN [raised |-> TRUE, value |-> <<>>] ELSE SearchResults(r)

\* lines 91-165
search_trusted_sources(r) ==
    IF r.raises
    THEN [raised |-> FALSE, value |-> <<>>]         \* except Exception (163-165)
    ELSE SearchResults(r)

(***************************************************************************)
(* Similarity Scorer: calculate_semantic_similarity.  A score is the       *)
(* fraction n / d.                                                         *)
(***************************************************************************)
Half == [n |-> 1, d |-> 2]
Scores == {[n |-> 9, d |-> 10]}

\* a > b for fractions with positive denominators
Greater(a, b) == a.n * b.d > b.n * a.d

ScorerOutcomes == {[raises |-> TRUE, score |-> Half]}
                  \cup {[raises |-> FALSE, score |-> s] : s \in Scores}

\* the overlap without the factor 0.5
LexicalOverlap_Unscaled(text1, text2) ==
    LET common_words == WordSet(text1) \cap WordSet(text2)
    IN [n |-> Cardinality(common_words), d |-> Max(Max(Len(text1), Len(text2)), 1)]

\* lines 203-204
LexicalOverlap(text1, text2) ==
    LET common_words == WordSet(text1) \cap WordSet(text2)
    IN [n |-> Cardinality(common_words),
        d |-> 2 * Max(Max(Len(text1), Len(text2)), 1)]

\* lines 167-204; rt_kind tells whether text2 is text
calculate_semantic_similarity(text1, rt_kind, text2, o) ==
    IF rt_kind = "nontext"
    THEN [raised |-> TRUE, value |-> Half]          \* text2[:8000] raises TypeError (183),
                                                    \* then text2.lower() raises in the
                                                    \* except block (203)
    ELSE IF o.raises
    THEN [raised |-> FALSE, value |-> LexicalOverlap(text1, text2)]
    ELSE [raised |-> FALSE, value |-> o.score]

(***************************************************************************)
(* Verdict Synthesizer: _determine_verdict.                                *)
(***************************************************************************)
VerdictObject(fence, has_verdict, verdict, conf_kind, conf, has_explanation) ==
    [NoResponse EXCEPT !.stage = "verdict", !.fence = fence, !.kind = "object",
                       !.has_verdict = has_verdict, !.verdict = verdict,
                       !.conf_kind = conf_kind, !.conf = conf,
                       !.has_explanation = has_explanation]

VerdictReply(raises, fence, kind) ==
    [NoResponse EXCEPT !.stage = "verdict", !.raises = raises, !.fence = fence,
                       !.kind = kind]

\* conf_kind: "number", "numeric_string" ("85"), "text" ("high"), "missing"
VerdictOutcomes ==
    {VerdictReply(TRUE, "none", "empty"),
     VerdictReply(FALSE, "none", "empty"),
     VerdictReply(FALSE, "none", "garbage"),
     VerdictReply(FALSE, "other", "object"),
     VerdictReply(FALSE, "none", "array"),
     VerdictObject("json", TRUE, "FALSE", "number", 85, TRUE),
     VerdictObject("bare", TRUE, "MISLEADING", "numeric_string", 70, TRUE),
     VerdictObject("none", TRUE, "PARTLY TRUE", "number", 85, TRUE),
     VerdictObject("none", TRUE, "TRUE", "number", 150, TRUE),
     VerdictObject("none", TRUE, "FALSE", "number", -5, TRUE),
     VerdictObject("none", FALSE, "", "missing", 0, FALSE),
     VerdictObject("none", TRUE, "TRUE", "text", 0, TRUE)}

Explanation(text, error) == [text |-> text, error |-> error]

\* lines 329-335
FallbackVerdict(sup, con) ==
    IF Len(con) > Len(sup)
    THEN [verdict |-> "FALSE", confidence |-> 60,
          explanation |-> Explanation("Multiple sources contradict this claim.", "")]
    ELSE IF Len(sup) > Len(con)
    THEN [verdict |-> "TRUE", confidence |-> 60,
          explanation |-> Explanation("Multiple sources support this claim.", "")]
    ELSE [verdict |-> "UNVERIFIED", confidence |-> 30,
          explanation |-> Explanation("Insufficient evidence to verify this claim.", "")]

\* the except block answering like the count rule's tie instead
VerdictError_AsInsufficient(error) ==
    [verdict |-> "UNVERIFIED", confidence |-> 30,
     explanation |-> Explanation("Insufficient evidence to verify this claim.", "")]

\* lines 337-339
VerdictError(error) ==
    [verdict |-> "UNVERIFIED", confidence |-> 0,
     explanation |-> Explanation("Error during verification: ", error)]

\* lines 262-339
determine_verdict(c, sup, con, r) ==
    IF r.raises
    THEN VerdictError("send_message failed")        \* 309, 337
    ELSE IF r.kind = "empty"
    THEN FallbackVerdict(sup, con)                  \* `if response` fails (311)
    ELSE IF JSONDecodeError(r)
    THEN FallbackVerdict(sup, con)                  \* except JSONDecodeError: pass (326)
    ELSE IF Loads(r) # "object"
    THEN VerdictError("AttributeError")             \* result.get (321, 337)
    ELSE IF r.conf_kind = "text"
    THEN VerdictError("ValueError")                 \* float('high') (322, 337)
    ELSE [verdict |-> IF r.has_verdict THEN r.verdict ELSE "UNVERIFIED",
          confidence |-> IF r.conf_kind = "missing" THEN 50 ELSE r.conf,
          explanation |-> IF r.has_explanation
                          THEN Explanation("explanation of the capability", "")
                          ELSE Explanation("Unable to determine verdict", "")]

(***************************************************************************)
(* The invocation.                                                         *)
(***************************************************************************)
ResultKeys == {"claim_id", "verdict", "confidence", "explanation",
               "supporting_sources", "contradicting_sources"}

\* no mapping yet: verify_claim has not returned
NoResult == [claim_id |-> "", verdict |-> "", confidence |-> 0,
             explanation |-> Explanation("", ""),
             supporting_sources |-> <<>>, contradicting_sources |-> <<>>]

\* no request is being served by the /verify endpoint
NoEndpoint ==
    [pc |-> "idle", extracted |-> 0, claims_data |-> <<>>, ci |-> 1,
     verified_claims |-> <<>>, saved |-> <<>>, overall |-> ""]

Init ==
    /\ table = trusted_sources
    /\ suspended = <<>>
    /\ endpoint = NoEndpoint
    /\ \E call \in Calls : claim = call[1] /\ claim_id = call[2]
    /\ pc = "plan"
    /\ queries = <<>>
    /\ qi = 1
    /\ all_sources = <<>>
    /\ si = 1
    /\ supporting = <<>>
    /\ contradicting = <<>>
    /\ returned = "none"
    /\ result = NoResult
    /\ response = NoResponse
    /\ planner_calls = 0
    /\ search_calls = 0
    /\ search_failed = 0
    /\ delays = 0
    /\ scorer_calls = 0
    /\ verdict_calls = 0

\* verify_claim without its except block: the exception reaches the caller
TopLevelHandler_Reraises(cid, error) ==
    [returned |-> "raised", result |-> NoResult]

\* the except block with a fixed explanation that leaves the error out
TopLevelHandler_DropsError(cid, error) ==
    [returned |-> "value",
     result |-> [claim_id |-> cid, verdict |-> "UNVERIFIED", confidence |-> 0,
                 explanation |->
                     Explanation("Verification failed due to technical error: ", ""),
                 supporting_sources |-> <<>>, contradicting_sources |-> <<>>]]

\* lines 251-260: verify_claim's own except block
TopLevelHandler(cid, error) ==
    [returned |-> "value",
     result |-> [claim_id |-> cid, verdict |-> "UNVERIFIED", confidence |-> 0,
                 explanation |->
                     Explanation("Verification failed due to technical error: ", error),
                 supporting_sources |-> <<>>, contradicting_sources |-> <<>>]]

\* scoring started as soon as something is gathered, the remaining queries
\* left unsearched
AfterQueries_ScoresEarly(qs, i, srcs) ==
    IF Len(srcs) > 0 THEN "score"
    ELSE IF i <= Len(qs) THEN "search"
    ELSE "verdict"

\* a query loop that waits for evidence: with nothing gathered it goes back
\* to searching, where no query is left
AfterQueries_WaitsForEvidence(qs, i, srcs) ==
    IF i <= Len(qs) \/ Len(srcs) = 0 THEN "search" ELSE "score"

\* where verify_claim stands once the query loop is at position i
AfterQueries(qs, i, srcs) ==
    IF i <= Len(qs) THEN "search"
    ELSE IF Len(srcs) > 0 THEN "score"
    ELSE "verdict"

\* line 214: queries = await self.generate_search_queries(claim)
Plan ==
    /\ pc = "plan"
    /\ \E r \in PlannerOutcomes :
         LET q == generate_search_queries(claim, r) IN
         /\ response' = r
         /\ IF q.raised
            THEN /\ returned' = TopLevelHandler(claim_id, "planner").returned
                 /\ result' = TopLevelHandler(claim_id, "planner").result
                 /\ pc' = "done"
                 /\ UNCHANGED queries
            ELSE /\ queries' = q.value
                 /\ pc' = AfterQueries(q.value, 1, <<>>)
                 /\ UNCHANGED <<returned, result>>
    /\ planner_calls' = planner_calls + 1
    /\ UNCHANGED <<claim, claim_id, qi, all_sources, si, supporting, contradicting,
                   search_calls, search_failed, delays, scorer_calls, verdict_calls,
                   table, suspended, endpoint>>

\* lines 219-221: one turn of `for query in queries`
Search ==
    /\ pc = "search"
    /\ qi <= Len(queries)
    /\ \E r \in SearchOutcomes(MaxSources - Len(all_sources)) :
         LET sources == search_trusted_sources(r)
             extended == all_sources \o sources.value
         IN /\ search_failed' = search_failed + (IF r.raises THEN 1 ELSE 0)
            /\ table' = TrustedSourcesAfter(table, sources.value)
            /\ IF sources.raised
               THEN /\ returned' = TopLevelHandler(claim_id, "search").returned
                    /\ result' = TopLevelHandler(claim_id, "search").result
                    /\ pc' = "done"
                    /\ UNCHANGED <<all_sources, qi, delays>>
               ELSE /\ all_sources' = extended
                    /\ delays' = delays + 1         \* line 221
                    /\ qi' = qi + 1
                    /\ pc' = AfterQueries(queries, qi + 1, extended)
                    /\ UNCHANGED <<returned, result>>
    /\ search_calls' = search_calls + 1
    /\ response' = NoResponse
    /\ UNCHANGED <<claim, claim_id, queries, si, supporting, contradicting,
                   planner_calls, scorer_calls, verdict_calls, suspended, endpoint>>

\* lines 225-229: one turn of `for source in all_sources`
Score ==
    /\ pc = "score"
    /\ si <= Len(all_sources)
    /\ \E o \in ScorerOutcomes :
         LET source == all_sources[si]
             similarity == calculate_semantic_similarity(
                               claim, source.rt_kind, source.relevant_text, o)
         IN IF similarity.raised
            THEN /\ returned' = TopLevelHandler(claim_id, "AttributeError").returned
                 /\ result' = TopLevelHandler(claim_id, "AttributeError").result
                 /\ pc' = "done"
                 /\ UNCHANGED <<all_sources, si>>
            ELSE /\ all_sources' = [all_sources EXCEPT
                                        ![si].has_similarity = TRUE,
                                        ![si].similarity_score = similarity.value]
                 /\ si' = si + 1
                 /\ pc' = IF si + 1 <= Len(all_sources) THEN "score" ELSE "verdict"
                 /\ UNCHANGED <<returned, result>>
    /\ scorer_calls' = scorer_calls + 1
    /\ response' = NoResponse
    /\ UNCHANGED <<claim, claim_id, queries, qi, supporting, contradicting,
                   planner_calls, search_calls, search_failed, delays, verdict_calls,
                   table, suspended, endpoint>>

\* s.get('similarity_score', 0)
SimilarityOf(s) == IF s.has_similarity THEN s.similarity_score ELSE [n |-> 0, d |-> 1]

\* the list comprehensions filtering on the stance alone
Qualifies_StanceOnly(s, stance) == s.stance = stance

\* the threshold test written with >= instead of >
Qualifies_AtLeast(s, stance) ==
    s.stance = stance /\ ~Greater(Half, SimilarityOf(s))

\* lines 232-233: the test of each list comprehension
Qualifies(s, stance) == s.stance = stance /\ Greater(SimilarityOf(s), Half)

\* lines 232-233
Categorize(sources, stance) == SelectSeq(sources, LAMBDA s : Qualifies(s, stance))

\* lines 242-249
Returned(cid, v, sup, con) ==
    [claim_id |-> cid, verdict |-> v.verdict, confidence |-> v.confidence,
     explanation |-> v.explanation,
     supporting_sources |-> Prefix(sup, 3),
     contradicting_sources |-> Prefix(con, 3)]

\* lines 232-249: categorize, await _determine_verdict, return
Verdict ==
    /\ pc = "verdict"
    /\ \E r \in VerdictOutcomes :
         LET sup == Categorize(all_sources, "supports")
             con == Categorize(all_sources, "contradicts")
             v == determine_verdict(claim, sup, con, r)
         IN /\ supporting' = sup
            /\ contradicting' = con
            /\ response' = r
            /\ result' = Returned(claim_id, v, sup, con)
    /\ returned' = "value"
    /\ verdict_calls' = verdict_calls + 1
    /\ pc' = "done"
    /\ UNCHANGED <<claim, claim_id, queries, qi, all_sources, si, planner_calls,
                   search_calls, search_failed, delays, scorer_calls, table, suspended,
                   endpoint>>

Next == Plan \/ Search \/ Score \/ Verdict

Spec == Init /\ [][Next]_vars

\* verify_claim is called with the longer claim of the model
InitFair == Init /\ claim = ClaimB

\* every external call eventually returns or raises, and the event loop then
\* resumes verify_claim: a step that can be taken is eventually taken
SpecFair == InitFair /\ [][Next]_vars /\ WF_vars(Next)

(***************************************************************************)
(* The aggregation stage on its own: verify_claim at line 231, the items   *)
(* of one search gathered and scored.  One Evidence Source answer may      *)
(* hold any number of items, so all_sources may be longer than the 3       *)
(* items the result keeps per direction.                                   *)
(***************************************************************************)
\* an evidence item after the scoring loop gave it the score of the capability
Scored(raw) ==
    [Annotated(raw) EXCEPT !.has_similarity = TRUE, !.similarity_score = [n |-> 9, d |-> 10]]

\* lines 206-229 have run: one query, its items gathered and scored
InitAggregate ==
    /\ table = trusted_sources
    /\ suspended = <<>>
    /\ endpoint = NoEndpoint
    /\ \E call \in Calls : claim = call[1] /\ claim_id = call[2]
    /\ pc = "verdict"
    /\ queries = <<claim>>
    /\ qi = 2
    /\ all_sources \in SeqsUpTo({Scored(it) : it \in EvidenceItems}, MaxGathered)
    /\ si = Len(all_sources) + 1
    /\ supporting = <<>>
    /\ contradicting = <<>>
    /\ returned = "none"
    /\ result = NoResult
    /\ response = NoResponse
    /\ planner_calls = 1
    /\ search_calls = 1
    /\ search_failed = 0
    /\ delays = 1
    /\ scorer_calls = Len(all_sources)
    /\ verdict_calls = 0

NextAggregate == Verdict

SpecAggregate == InitAggregate /\ [][NextAggregate]_vars

(***************************************************************************)
(* The scoring of one item on its own: verify_claim at line 225 with one   *)
(* gathered item, claim and relevant_text drawn from short texts.          *)
(***************************************************************************)
Vocabulary == {"the", "The", "sky"}
SkyGrey == <<"the", "sky", "is", "grey">>
Texts == SeqsUpTo(Vocabulary, MaxTextLen) \cup {ClaimB, SkyGrey}

\* lines 206-221 have run: one query, one item gathered
InitLexical ==
    /\ table = trusted_sources
    /\ suspended = <<>>
    /\ endpoint = NoEndpoint
    /\ claim \in Texts
    /\ claim_id = "id-1"
    /\ pc = "score"
    /\ queries = <<claim>>
    /\ qi = 2
    /\ \E text \in Texts :
          all_sources = <<Annotated(RawItem("Blog", "supports", "text", text))>>
    /\ si = 1
    /\ supporting = <<>>
    /\ contradicting = <<>>
    /\ returned = "none"
    /\ result = NoResult
    /\ response = NoResponse
    /\ planner_calls = 1
    /\ search_calls = 1
    /\ search_failed = 0
    /\ delays = 1
    /\ scorer_calls = 0
    /\ verdict_calls = 0

NextLexical == Score

SpecLexical == InitLexical /\ [][NextLexical]_vars

(***************************************************************************)
(* Scoring and categorisation of a short evidence list: verify_claim at    *)
(* line 225 with one or two gathered items.  The first item supports the   *)
(* claim and its text is drawn from the short texts; the second, when      *)
(* there is one, contradicts it or has a relevant_text that is not text.   *)
(***************************************************************************)
SecondItems ==
    {RawItem("Blog", "contradicts", "text", RtSky),
     RawItem("pti news", "supports", "nontext", <<>>)}

Gathered ==
    {<<Annotated(RawItem("PTI", "supports", "text", text))>> : text \in Texts}
    \cup {<<Annotated(RawItem("PTI", "supports", "text", text)), Annotated(second)>> :
             text \in Texts, second \in SecondItems}

\* lines 206-221 have run: one query, its items gathered
InitFallback ==
    /\ table = trusted_sources
    /\ suspended = <<>>
    /\ endpoint = NoEndpoint
    /\ claim \in Texts
    /\ claim_id = "id-1"
    /\ pc = "score"
    /\ queries = <<claim>>
    /\ qi = 2
    /\ all_sources \in Gathered
    /\ si = 1
    /\ supporting = <<>>
    /\ contradicting = <<>>
    /\ returned = "none"
    /\ result = NoResult
    /\ response = NoResponse
    /\ planner_calls = 1
    /\ search_calls = 1
    /\ search_failed = 0
    /\ delays = 1
    /\ scorer_calls = 0
    /\ verdict_calls = 0

NextFallback == Score \/ Verdict

SpecFallback == InitFallback /\ [][NextFallback]_vars

(***************************************************************************)
(* Two invocations of verify_claim on the one VerificationService of       *)
(* server.py line 32.  The event loop runs one coroutine at a time; at     *)
(* every await it may resume another.  The variables of verify_claim are   *)
(* the frame of the running coroutine, suspended holds the frame of the    *)
(* waiting one, table is the attribute of the service both can reach.      *)
(***************************************************************************)
\* the variables that hold the locals of the running verify_claim
frame_vars == <<claim, claim_id, pc, queries, qi, all_sources, si, supporting,
                contradicting, returned, result, response, planner_calls,
                search_calls, search_failed, delays, scorer_calls, verdict_calls>>

\* the locals of the running verify_claim (and the counts of its calls)
Frame ==
    [claim |-> claim, claim_id |-> claim_id, pc |-> pc, queries |-> queries,
     qi |-> qi, all_sources |-> all_sources, si |-> si, supporting |-> supporting,
     contradicting |-> contradicting, returned |-> returned, result |-> result,
     response |-> response, planner_calls |-> planner_calls,
     search_calls |-> search_calls, search_failed |-> search_failed,
     delays |-> delays, scorer_calls |-> scorer_calls, verdict_calls |-> verdict_calls]

\* the frame of verify_claim(call[1], call[2]) before its first step
NewFrame(call) ==
    [claim |-> call[1], claim_id |-> call[2], pc |-> "plan", queries |-> <<>>,
     qi |-> 1, all_sources |-> <<>>, si |-> 1, supporting |-> <<>>,
     contradicting |-> <<>>, returned |-> "none", result |-> NoResult,
     response |-> NoResponse, planner_calls |-> 0, search_calls |-> 0,
     search_failed |-> 0, delays |-> 0, scorer_calls |-> 0, verdict_calls |-> 0]

\* verify_claim starts running with the locals f
Starts(f) ==
    /\ claim = f.claim
    /\ claim_id = f.claim_id
    /\ pc = f.pc
    /\ queries = f.queries
    /\ qi = f.qi
    /\ all_sources = f.all_sources
    /\ si = f.si
    /\ supporting = f.supporting
    /\ contradicting = f.contradicting
    /\ returned = f.returned
    /\ result = f.result
    /\ response = f.response
    /\ planner_calls = f.planner_calls
    /\ search_calls = f.search_calls
    /\ search_failed = f.search_failed
    /\ delays = f.delays
    /\ scorer_calls = f.scorer_calls
    /\ verdict_calls = f.verdict_calls

\* the event loop resumes the coroutine whose frame is f
Resume(f) ==
    /\ claim' = f.claim
    /\ claim_id' = f.claim_id
    /\ pc' = f.pc
    /\ queries' = f.queries
    /\ qi' = f.qi
    /\ all_sources' = f.all_sources
    /\ si' = f.si
    /\ supporting' = f.supporting
    /\ contradicting' = f.contradicting
    /\ returned' = f.returned
    /\ result' = f.result
    /\ response' = f.response
    /\ planner_calls' = f.planner_calls
    /\ search_calls' = f.search_calls
    /\ search_failed' = f.search_failed
    /\ delays' = f.delays
    /\ scorer_calls' = f.scorer_calls
    /\ verdict_calls' = f.verdict_calls

InitConcurrent ==
    /\ table = trusted_sources
    /\ endpoint = NoEndpoint
    /\ Starts(NewFrame(<<ClaimA, "id-1">>))
    /\ suspended = <<NewFrame(<<ClaimB, "id-2">>)>>

\* the running coroutine waits at an await (or has returned) and the event
\* loop resumes the other one
Switch ==
    /\ Len(suspended) = 1
    /\ suspended[1].pc # "done"
    /\ suspended' = <<Frame>>
    /\ Resume(suspended[1])
    /\ UNCHANGED <<table, endpoint>>

\* the answers of the capabilities are kept short while two invocations run:
\* one query, MaxInterleavedItems items, a synthesis answer without code fence
Narrow ==
    /\ Len(queries) <= 1
    /\ Len(all_sources) <= MaxInterleavedItems
    /\ response.fence = "none"
    /\ response.conf_kind \in {"missing", "number"}

NextConcurrent ==
    \/ Plan /\ Narrow'
    \/ Search /\ Narrow'
    \/ Score
    \/ Verdict /\ Narrow'
    \/ Switch

SpecConcurrent == InitConcurrent /\ [][NextConcurrent]_vars

(***************************************************************************)
(* The /verify endpoint, server.py verify_content, from claim extraction   *)
(* (line 115) on.  What nlp_service.extract_claims and verify_claim        *)
(* return is chosen nondeterministically; credibility_service is           *)
(* credibility_service.py.                                                 *)
(***************************************************************************)
\* the URLs of the model and urlparse(url).netloc.lower() without 'www.'
\* (credibility_service.py lines 36-43)
PtiUrl == "https://www.ptinews.com/a"
BlogUrl == "https://blog.example.org/a"
get_domain_from_url(url) ==
    IF url = PtiUrl THEN "ptinews.com"
    ELSE IF url = BlogUrl THEN "blog.example.org"
    ELSE ""

\* self.source_ratings (credibility_service.py lines 9-30), the entries the
\* domains of the model can match and the one before them, in dict order
source_ratings ==
    <<[domain |-> "thehindu.com", score |-> 85],
      [domain |-> "ptinews.com", score |-> 88]>>

\* known_domain in domain
DomainContains(domain, known_domain) == domain = known_domain

\* domain.endswith(suffix)
EndsWith(domain, suffix) == <<domain, suffix>> \in {<<"blog.example.org", ".org">>}

\* credibility_service.py lines 47-73
calculate_source_credibility(source_url) ==
    LET domain == get_domain_from_url(source_url)
        hits == {k \in 1..Len(source_ratings) :
                    DomainContains(domain, source_ratings[k].domain)}
    IN IF hits # {}
       THEN source_ratings[CHOOSE k \in hits : \A j \in hits : k <= j].score
       ELSE IF EndsWith(domain, ".gov.in") THEN 90
       ELSE IF EndsWith(domain, ".edu") THEN 85
       ELSE IF EndsWith(domain, ".org.in") \/ EndsWith(domain, ".org") THEN 75
       ELSE 60                \* no domain of the model holds fake, satire or parody

\* credibility_service.py lines 85-92
ReputationCategory(credibility) ==
    IF credibility >= 85 THEN "Highly Trusted"
    ELSE IF credibility >= 70 THEN "Trusted"
    ELSE IF credibility >= 50 THEN "Moderate"
    ELSE "Questionable"

\* the record source_data with the keys of extra set or replaced
Updated(source_data, extra) ==
    [k \in DOMAIN source_data \cup DOMAIN extra |->
        IF k \in DOMAIN extra THEN extra[k] ELSE source_data[k]]

\* credibility_service.py lines 75-98: the mapping returned; source_data
\* itself is left as it is
analyze_source_reputation(source_data) ==
    LET credibility == calculate_source_credibility(source_data.source_url)
    IN Updated(source_data, [credibility_score |-> credibility,
                             reputation_category |-> ReputationCategory(credibility)])

\* an evidence item of a list verify_claim returns
EndpointItem(name, has_url, url, stance) ==
    [source_name |-> name, has_url |-> has_url, source_url |-> url,
     relevant_text |-> RtSky, stance |-> stance,
     similarity_score |-> [n |-> 9, d |-> 10],
     credibility_score |-> CredibilityOf(name)]

PtiItem == EndpointItem("PTI", TRUE, PtiUrl, "supports")
BlogItem == EndpointItem("Blog", TRUE, BlogUrl, "contradicts")
NoUrlItem == EndpointItem("Blog", FALSE, "", "supports")

VerifyResult(verdict, sup, con) ==
    [verdict |-> verdict, confidence |-> 60, supporting_sources |-> sup,
     contradicting_sources |-> con]

\* the mappings verify_claim returns to the endpoint in the model
VerifyResults ==
    {VerifyResult(v, <<>>, <<>>) :
        v \in {"TRUE", "FALSE", "MISLEADING", "UNVERIFIED", "PARTLY TRUE"}}
    \cup {VerifyResult("TRUE", <<PtiItem>>, <<>>),
          VerifyResult("FALSE", <<PtiItem>>, <<BlogItem>>),
          VerifyResult("TRUE", <<NoUrlItem>>, <<>>)}

\* models.py lines 27-32: SourceEvidence keeps its five fields
SourceEvidence(item) ==
    [source_name |-> item.source_name, source_url |-> item.source_url,
     relevant_text |-> item.relevant_text,
     similarity_score |-> item.similarity_score,
     credibility_score |-> item.credibility_score]

\* pydantic rejects the item: a required field is missing
ValidationError(item) == ~item.has_url

\* server.py lines 152-156: sources after the loop that calls
\* analyze_source_reputation(source) on each and drops what it returns
Enhanced(sources) ==
    LET returned_mappings == [i \in 1..Len(sources) |->
                                 analyze_source_reputation(sources[i])]
    IN sources

ClaimText(i) == <<"claim", ToString(i)>>
\* server.py lines 120-124: text_to_analyze[:500] as the one claim
TextItself == <<"text">>

\* server.py line 130: claims_data[:5]
ClaimsSlice(claims_data) == Prefix(claims_data, 5)

\* verdicts.count(v)
CountOf(verdicts, v) == Cardinality({i \in 1..Len(verdicts) : verdicts[i] = v})

\* the thresholds taken with >= for >
OverallAssessment_AtLeastHalf(verdicts) ==
    LET false_count == CountOf(verdicts, "FALSE")
        misleading_count == CountOf(verdicts, "MISLEADING")
    IN IF 2 * false_count >= Len(verdicts) THEN "likely misinformation"
       ELSE IF 2 * (false_count + misleading_count) >= Len(verdicts)
       THEN "misleading or false information"
       ELSE IF 2 * CountOf(verdicts, "TRUE") >= Len(verdicts) THEN "largely factual"
       ELSE "unable to fully verify"

\* server.py lines 183-194; count > len(verdicts) / 2 is 2 * count > len(verdicts)
OverallAssessment(verdicts) ==
    LET false_count == CountOf(verdicts, "FALSE")
        misleading_count == CountOf(verdicts, "MISLEADING")
    IN IF 2 * false_count > Len(verdicts) THEN "likely misinformation"
       ELSE IF 2 * (false_count + misleading_count) > Len(verdicts)
       THEN "misleading or false information"
       ELSE IF 2 * CountOf(verdicts, "TRUE") > Len(verdicts) THEN "largely factual"
       ELSE "unable to fully verify"

\* verify_content has saved the article and is about to extract the claims
InitEndpoint ==
    /\ table = trusted_sources
    /\ suspended = <<>>
    /\ Starts(NewFrame(<<ClaimA, "id-1">>))
    /\ endpoint = [NoEndpoint EXCEPT !.pc = "extract"]

\* server.py lines 115-125
ExtractClaims ==
    /\ endpoint.pc = "extract"
    /\ \E n \in 0..MaxExtracted :
          endpoint' = [endpoint EXCEPT
                          !.pc = "verify",
                          !.extracted = n,
                          !.claims_data = IF n = 0 THEN <<TextItself>>
                                          ELSE [i \in 1..n |-> ClaimText(i)]]
    /\ UNCHANGED <<frame_vars, table, suspended>>

\* server.py lines 130-180: one turn of `for claim_data in claims_data[:5]`
VerifyOne ==
    /\ endpoint.pc = "verify"
    /\ endpoint.ci <= Len(ClaimsSlice(endpoint.claims_data))
    /\ \E verification_result \in VerifyResults :
          LET sup == Enhanced(verification_result.supporting_sources)
              con == Enhanced(verification_result.contradicting_sources)
              result_dict == [claim_text |-> endpoint.claims_data[endpoint.ci],
                              verdict |-> verification_result.verdict,
                              confidence |-> verification_result.confidence,
                              supporting_sources |->
                                  [i \in 1..Len(sup) |-> SourceEvidence(sup[i])],
                              contradicting_sources |->
                                  [i \in 1..Len(con) |-> SourceEvidence(con[i])]]
          IN IF \E s \in Range(sup) \cup Range(con) : ValidationError(s)
             THEN endpoint' = [endpoint EXCEPT !.pc = "error"]    \* lines 209-211
             ELSE endpoint' = [endpoint EXCEPT
                     !.saved = Append(@, result_dict),
                     !.verified_claims = Append(@, result_dict),
                     !.ci = @ + 1,
                     !.pc = IF endpoint.ci + 1 <= Len(ClaimsSlice(endpoint.claims_data))
                            THEN "verify" ELSE "assess"]
    /\ UNCHANGED <<frame_vars, table, suspended>>

\* server.py lines 182-205
Assess ==
    /\ endpoint.pc = "assess"
    /\ LET verdicts == [i \in 1..Len(endpoint.verified_claims) |->
                           endpoint.verified_claims[i].verdict]
       IN endpoint' = [endpoint EXCEPT !.pc = "done",
                                       !.overall = OverallAssessment(verdicts)]
    /\ UNCHANGED <<frame_vars, table, suspended>>

NextEndpoint == ExtractClaims \/ VerifyOne \/ Assess

SpecEndpoint == InitEndpoint /\ [][NextEndpoint]_vars

(***************************************************************************)
(* Properties.                                                             *)
(***************************************************************************)
Done == pc = "done"

\* C1: verify_claim never raises to its caller, whatever the external
\* capabilities do: an invocation that has not returned can always go on, and
\* when it ends it has returned a mapping with exactly the six keys whose
\* claim_id is the claim id it was given.
C1_AlwaysReturnsResult ==
    /\ returned # "raised"
    /\ ~Done => returned = "none" /\ ENABLED Next
    /\ Done => /\ returned = "value"
               /\ DOMAIN result = ResultKeys
               /\ result.claim_id = claim_id

\* an exception escaped the inner guards (here from the scoring loop) and
\* verify_claim still returned a mapping
C1_Witness ==
    /\ Done
    /\ returned = "value"
    /\ scorer_calls = 2
    /\ result.explanation.text = "Verification failed due to technical error: "
    /\ result.claim_id = "id-2"

\* C2: on every path the returned verdict is one of TRUE, FALSE, MISLEADING,
\* UNVERIFIED.
C2_VerdictInEnumeration ==
    Done => result.verdict \in {"TRUE", "FALSE", "MISLEADING", "UNVERIFIED"}

\* C3: on every path the returned confidence lies in [0,100].
C3_ConfidenceInRange ==
    Done => result.confidence >= 0 /\ result.confidence <= 100

\* the similarity score of s is strictly greater than 0.5
AboveHalf(s) == s.has_similarity /\ 2 * s.similarity_score.n > s.similarity_score.d

\* C4: every item of the supporting set has stance supports and a similarity
\* score > 0.5, every item of the contradicting set has stance contradicts and
\* a similarity score > 0.5; an item with another stance, or with a score of
\* 0.5 or less, is in neither set (nor in the returned lists), and no item is
\* in both sets.
C4_PartitionMembership ==
    LET sup == Range(supporting) \cup Range(result.supporting_sources)
        con == Range(contradicting) \cup Range(result.contradicting_sources)
    IN /\ \A s \in sup : s.stance = "supports" /\ AboveHalf(s)
       /\ \A s \in con : s.stance = "contradicts" /\ AboveHalf(s)
       /\ \A s \in Range(all_sources) :
             (s.stance \notin {"supports", "contradicts"} \/ ~AboveHalf(s))
                 => s \notin sup \cup con
       /\ sup \cap con = {}

\* both sets are inhabited, a supporting-stance item scored exactly 0.5 and a
\* neutral item scored 0.9 were gathered and left out
C4_Witness ==
    /\ Done
    /\ Len(supporting) = 1
    /\ Len(contradicting) = 1
    /\ \E s \in Range(all_sources) :
          /\ s.stance = "supports" /\ s.has_similarity
          /\ 2 * s.similarity_score.n = s.similarity_score.d
    /\ \E s \in Range(all_sources) :
          s.stance = "neutral" /\ AboveHalf(s)

\* the Verdict Synthesizer's capability has answered and verify_claim returned
Synthesized == Done /\ response.stage = "verdict"

\* the response is text that json.loads rejects
NotJson(r) == ~r.raises /\ r.kind # "empty" /\ (r.kind = "garbage" \/ r.fence = "other")

\* the verdict and confidence the count rule gives for the two sets
CountRule ==
    /\ Len(contradicting) > Len(supporting)
          => result.verdict = "FALSE" /\ result.confidence = 60
    /\ Len(supporting) > Len(contradicting)
          => result.verdict = "TRUE" /\ result.confidence = 60
    /\ Len(supporting) = Len(contradicting)
          => result.verdict = "UNVERIFIED" /\ result.confidence = 30

\* C5: when the Verdict Synthesizer's capability raises or returns a
\* malformed (empty or unparseable) response, the count rule decides: more
\* contradicting than supporting items FALSE/60, more supporting TRUE/60, equal
\* counts UNVERIFIED/30.
C5_CountRuleOnAnyFailure ==
    (Synthesized /\ (response.raises \/ response.kind = "empty" \/ NotJson(response)))
        => CountRule

\* C6: while every Evidence Source call made so far has raised, no evidence is
\* gathered and the Similarity Scorer is not invoked; when verify_claim ends
\* in that case, both sets are empty, the Verdict Synthesizer was invoked, and
\* its fallback path gives UNVERIFIED with confidence 30.
C6_EvidenceSourceAlwaysRaises ==
    search_failed = search_calls =>
        /\ all_sources = <<>>
        /\ scorer_calls = 0
        /\ Done =>
              /\ verdict_calls = 1
              /\ supporting = <<>> /\ contradicting = <<>>
              /\ result.supporting_sources = <<>>
              /\ result.contradicting_sources = <<>>
              /\ (response.kind = "empty" \/ NotJson(response)) /\ ~response.raises
                    => result.verdict = "UNVERIFIED" /\ result.confidence = 30

\* three queries, three raising Evidence Source calls, fallback verdict
C6_Witness ==
    /\ Done
    /\ search_calls = 3
    /\ search_failed = 3
    /\ verdict_calls = 1
    /\ NotJson(response)
    /\ result.verdict = "UNVERIFIED"
    /\ result.confidence = 30

\* C7: a failing Evidence Source call or a failing scoring of one item
\* (relevant_text missing or not text included) degrades that query or item
\* only: every query is searched, every gathered item is given a score, and the
\* verdict stage is reached.
C7_FailuresDegradeOneItemOnly ==
    Done =>
        /\ search_calls = Len(queries)
        /\ scorer_calls = Len(all_sources)
        /\ \A s \in Range(all_sources) : s.has_similarity
        /\ verdict_calls = 1

\* the Query Planner's capability has answered and nothing was called since
Planned == response.stage = "plan"

\* the response parses into a JSON array
ParsesToList(r) == ~r.raises /\ r.kind = "array" /\ ~NotJson(r)

\* C8: generate_search_queries returns exactly [claim] whenever its capability
\* raises, returns an empty response, or returns text that does not parse into
\* a list of queries; it never raises.
C8_FallsBackToClaim ==
    /\ Planned => returned = "none"
    /\ (Planned /\ ~ParsesToList(response)) => queries = <<claim>>

\* C9: generate_search_queries yields at most 3 queries, the first 3 elements
\* in order of a longer parsed array; one invocation plans once and makes at
\* most 3 Evidence Source calls, one per query.
C9_AtMostThreeQueries ==
    /\ Len(queries) <= 3
    /\ planner_calls <= 1
    /\ search_calls <= 3
    /\ search_calls <= Len(queries)
    /\ (Planned /\ ParsesToList(response)) =>
          /\ Len(queries) = IF Len(response.elems) < 3 THEN Len(response.elems) ELSE 3
          /\ \A i \in 1..Len(queries) : queries[i] = response.elems[i]

\* an array of more than 3 queries was answered and 3 were kept
C9_Witness ==
    /\ Planned
    /\ ParsesToList(response)
    /\ Len(response.elems) > 3
    /\ Len(queries) = 3
    /\ pc = "search"

\* the positions in all_sources of the items with this stance and a score > 0.5
QualifyingAt(stance) ==
    {j \in 1..Len(all_sources) :
        all_sources[j].stance = stance /\ AboveHalf(all_sources[j])}

\* list holds the first min(3, n) of the n qualifying items, in arrival order
FirstQualifying(list, stance) ==
    LET Q == QualifyingAt(stance)
    IN /\ Len(list) = IF Cardinality(Q) < 3 THEN Cardinality(Q) ELSE 3
       /\ \A i \in 1..Len(list) :
             \E j \in Q : /\ Cardinality({k \in Q : k < j}) = i - 1
                          /\ list[i] = all_sources[j]

\* C10: supporting_sources and contradicting_sources of the returned result
\* each hold at most 3 items, exactly the first min(3, n) qualifying items in
\* arrival order, without deduplication or re-sorting.
C10_FirstThreeQualifying ==
    Done =>
        /\ Len(result.supporting_sources) <= 3
        /\ Len(result.contradicting_sources) <= 3
        /\ FirstQualifying(result.supporting_sources, "supports")
        /\ FirstQualifying(result.contradicting_sources, "contradicts")


\* the Verdict Synthesizer took its count-based fallback (lines 329-335)
OnFallbackPath ==
    Synthesized /\ ~response.raises /\ (response.kind = "empty" \/ NotJson(response))

\* C11: the Verdict Synthesizer receives the truncated sets, so on the
\* count-based fallback path the verdict agrees with the sizes of the returned
\* lists: FALSE only if contradicting_sources is longer, TRUE only if
\* supporting_sources is longer, UNVERIFIED/30 only if they have equal length.
C11_FallbackAgreesWithReturnedLists ==
    OnFallbackPath =>
        LET ns == Len(result.supporting_sources)
            nc == Len(result.contradicting_sources)
        IN /\ result.verdict = "FALSE" => nc > ns
           /\ result.verdict = "TRUE" => ns > nc
           /\ result.verdict = "UNVERIFIED" => ns = nc /\ result.confidence = 30
           /\ result.verdict \in {"FALSE", "TRUE", "UNVERIFIED"}

\* json.loads gave a value that is not an object: result.get raises
ParsedNonObject(r) ==
    /\ ~r.raises
    /\ r.fence # "other"
    /\ r.kind \in {"null", "number", "string", "array"}

\* the object's confidence is text float() rejects
ConfidenceNotCoercible(r) ==
    ~r.raises /\ r.fence # "other" /\ r.kind = "object" /\ r.conf_kind = "text"

\* an exception other than a JSON parse failure was raised inside
\* _determine_verdict
SynthesisRaised ==
    Synthesized /\ (response.raises \/ ParsedNonObject(response)
                       \/ ConfidenceNotCoercible(response))

\* C12: an exception raised inside the Verdict Synthesizer other than a JSON
\* parse failure (the capability call raising, a parsed response that is not
\* an object, a confidence that cannot be coerced) gives UNVERIFIED with
\* confidence 0 and an explanation embedding the error text; it does not
\* propagate, and verify_claim returns the first 3 supporting and
\* contradicting items it gathered.
C12_SynthesisErrorKeepsEvidence ==
    SynthesisRaised =>
        /\ returned = "value"
        /\ result.verdict = "UNVERIFIED"
        /\ result.confidence = 0
        /\ result.explanation.text = "Error during verification: "
        /\ result.explanation.error # ""
        /\ FirstQualifying(result.supporting_sources, "supports")
        /\ FirstQualifying(result.contradicting_sources, "contradicts")

\* the capability answered a JSON array; the result carries the error and one
\* item in each list
C12_Witness ==
    /\ SynthesisRaised
    /\ response.kind = "array"
    /\ result.explanation.error = "AttributeError"
    /\ Len(result.supporting_sources) = 1
    /\ Len(result.contradicting_sources) = 1

\* verify_claim ended before it reached the return statement of line 242: an
\* exception escaped one of the helpers
Escaped == Done /\ verdict_calls = 0

\* C13: an exception that escapes the inner guards of a helper is caught at
\* the top level of verify_claim and converted into a result with verdict
\* UNVERIFIED, confidence 0, an explanation carrying the error text, and empty
\* supporting_sources and contradicting_sources; the item being scored when
\* it escaped is one whose relevant_text is not text.
C13_TopLevelHandlerResult ==
    Escaped =>
        /\ returned = "value"
        /\ result.claim_id = claim_id
        /\ result.verdict = "UNVERIFIED"
        /\ result.confidence = 0
        /\ result.explanation.text = "Verification failed due to technical error: "
        /\ result.explanation.error # ""
        /\ result.supporting_sources = <<>>
        /\ result.contradicting_sources = <<>>
        /\ si <= Len(all_sources) /\ all_sources[si].rt_kind = "nontext"

\* the exception escaped after a supporting item had been scored above 0.5:
\* the result still has empty lists
C13_Witness ==
    /\ Escaped
    /\ scorer_calls = 3
    /\ \E s \in Range(all_sources) : s.stance = "supports" /\ AboveHalf(s)
    /\ \E s \in Range(all_sources) : s.stance = "contradicts" /\ AboveHalf(s)
    /\ result.supporting_sources = <<>>

\* C14: no external call is retried: in one invocation the Query Planner's
\* capability is invoked exactly once, the Evidence Source exactly once per
\* query, the Similarity Scorer exactly once per gathered evidence item and
\* the Verdict Synthesizer's capability at most once, whether the calls
\* succeed or fail.
C14_ExactlyOncePerUnit ==
    /\ planner_calls <= 1
    /\ search_calls <= Len(queries)
    /\ scorer_calls <= Len(all_sources)
    /\ verdict_calls <= 1
    /\ Done => /\ planner_calls = 1
               /\ search_calls = Len(queries)
               /\ scorer_calls = Len(all_sources)

\* what one step of verify_claim may do to the numbers of calls made
StrictSequence ==
    /\ planner_calls' + search_calls' + scorer_calls' + verdict_calls'
          = planner_calls + search_calls + scorer_calls + verdict_calls + 1
    /\ planner_calls' # planner_calls =>
          /\ planner_calls = 0 /\ search_calls = 0
          /\ scorer_calls = 0 /\ verdict_calls = 0
    /\ search_calls' # search_calls =>
          /\ planner_calls = 1 /\ scorer_calls = 0 /\ verdict_calls = 0
          /\ qi = search_calls + 1 /\ qi <= Len(queries)
          /\ delays = search_calls                  \* a delay followed each earlier call
          /\ delays' = search_calls'                \* and follows this one
    /\ scorer_calls' # scorer_calls =>
          /\ search_calls = Len(queries) /\ delays = Len(queries)
          /\ verdict_calls = 0
          /\ si = scorer_calls + 1 /\ si <= Len(all_sources)
          /\ \A j \in 1..Len(all_sources) : all_sources[j].has_similarity <=> j < si
    /\ verdict_calls' # verdict_calls =>
          /\ verdict_calls = 0
          /\ search_calls = Len(queries)
          /\ scorer_calls = Len(all_sources)
          /\ \A j \in 1..Len(all_sources) : all_sources[j].has_similarity

\* C15: the stages of one invocation run strictly in sequence: every step is
\* one external call; planning comes first; the Evidence Source calls are made
\* one at a time in query order, each followed by the pacing delay; scoring
\* starts when every query has been searched and goes one item at a time in
\* item order; the Verdict Synthesizer is invoked only when every item has
\* been scored.
C15_StrictSequence == [][StrictSequence]_vars

\* three searches, four scorings and the synthesis have been made in turn
C15_Witness ==
    /\ Done
    /\ planner_calls = 1
    /\ search_calls = 3
    /\ delays = 3
    /\ scorer_calls = 4
    /\ verdict_calls = 1

\* the external calls one invocation has made
ExternalCalls == planner_calls + search_calls + scorer_calls + verdict_calls

\* C17: if every external call eventually returns or raises, verify_claim
\* eventually returns, having made one planning call, at most 3 searches, at
\* most one scoring per gathered item and at most one synthesis call.
C17_EventuallyReturns ==
    <>(/\ Done
       /\ returned = "value"
       /\ planner_calls = 1
       /\ search_calls <= 3
       /\ scorer_calls <= Len(all_sources)
       /\ verdict_calls <= 1
       /\ ExternalCalls <= 5 + Len(all_sources))

\* an invocation returned after the most calls the model allows: one planning
\* call, a failed search and two more, four scorings, one synthesis
C17_Witness ==
    /\ Done
    /\ returned = "value"
    /\ search_failed = 1
    /\ Len(all_sources) = MaxSources
    /\ ExternalCalls = 5 + MaxSources

\* the item's score is not the one the capability answers: the Similarity
\* Scorer failed and the score is the lexical-overlap one
ScoredByFallback(s) == s.has_similarity /\ s.similarity_score \notin Scores

\* C18: when the Similarity Scorer fails, the score is the number of distinct
\* lower-cased tokens common to both texts, divided by the largest of the two
\* token counts and 1, times 0.5; it is never negative, an empty text on
\* either side gives 0 without a division by zero, and 'the sky is blue'
\* against 'the sky is grey' gives 0.375.
C18_LexicalOverlapScore ==
    \A j \in 1..Len(all_sources) :
        LET s == all_sources[j]
            score == s.similarity_score
            text2 == s.relevant_text
            common == {w \in WordSet(claim) : w \in WordSet(text2)}
            longest == IF Len(claim) >= Len(text2) THEN Len(claim) ELSE Len(text2)
            divisor == IF longest >= 1 THEN longest ELSE 1
        IN ScoredByFallback(s) =>
              /\ score.d > 0
              /\ score.n >= 0
              /\ score.n * 2 * divisor = Cardinality(common) * score.d
              /\ (claim = <<>> \/ text2 = <<>>) => score.n = 0
              /\ (claim = ClaimB /\ text2 = SkyGrey) => 8 * score.n = 3 * score.d

\* the scorer failed for 'the sky is blue' against 'the sky is grey'
C18_Witness ==
    /\ claim = ClaimB
    /\ Len(all_sources) = 1
    /\ all_sources[1].relevant_text = SkyGrey
    /\ ScoredByFallback(all_sources[1])
    /\ 8 * all_sources[1].similarity_score.n = 3 * all_sources[1].similarity_score.d

\* the scorer failed with an empty relevant_text and the score is 0
C18_WitnessEmpty ==
    /\ Len(all_sources) = 1
    /\ Len(claim) = 2
    /\ all_sources[1].relevant_text = <<>>
    /\ ScoredByFallback(all_sources[1])
    /\ all_sources[1].similarity_score.n = 0

\* the rating search_trusted_sources gives a source name from the table that
\* __init__ built
RatingAlone(source_name) ==
    LET hits == {k \in 1..Len(trusted_sources) :
                    NameContains(source_name, trusted_sources[k].name)}
    IN IF hits = {} THEN 70
       ELSE trusted_sources[CHOOSE k \in hits : \A j \in hits : k <= j].credibility

\* the invocation with frame f holds what it would hold running alone: its
\* items rated from the table as built, and once returned its own claim_id, and
\* the verdict and lists that follow from its own items and its own synthesis
\* response
AsAlone(f) ==
    /\ \A j \in 1..Len(f.all_sources) :
          f.all_sources[j].credibility_score = RatingAlone(f.all_sources[j].source_name)
    /\ f.pc = "done" =>
          /\ f.returned = "value"
          /\ f.result.claim_id = f.claim_id
          /\ f.verdict_calls = 1 =>
                LET sup == Categorize(f.all_sources, "supports")
                    con == Categorize(f.all_sources, "contradicts")
                IN f.result = Returned(f.claim_id,
                                       determine_verdict(f.claim, sup, con, f.response),
                                       sup, con)

\* a step either belongs to the running invocation and leaves the waiting
\* one's frame as it is, or hands over and changes neither frame
NoInterference ==
    /\ table' = table
    /\ \/ suspended' = suspended
       \/ suspended' = <<Frame>> /\ suspended = <<Frame'>>

\* C16: invocations of verify_claim interleaved at their awaits share no
\* mutable state: no step alters the trusted-source table or the frame (the
\* evidence items with their scores, the result) of the invocation that is
\* waiting, and each invocation holds what it would hold running alone with
\* the same external responses.
C16_NoSharedMutableState ==
    /\ [](table = trusted_sources /\ AsAlone(Frame)
             /\ \A k \in 1..Len(suspended) : AsAlone(suspended[k]))
    /\ [][NoInterference]_vars

\* both invocations have gathered and scored an item, one awaits its synthesis
\* call while the other has returned with that item
C16_Witness ==
    /\ Len(suspended) = 1
    /\ suspended[1].pc = "done"
    /\ suspended[1].claim_id = "id-1"
    /\ Len(suspended[1].result.supporting_sources) = 1
    /\ pc = "verdict"
    /\ claim_id = "id-2"
    /\ Len(all_sources) = 1
    /\ AboveHalf(all_sources[1])
    /\ all_sources[1].stance = "contradicts"

\* the endpoint has built its response
Assessed == endpoint.pc = "done"

\* C19: the overall assessment follows from the n per-claim verdicts
\* (1 <= n <= 5) by thresholds taken in order: FALSE more than n/2, else FALSE
\* plus MISLEADING more than n/2, else TRUE more than n/2, else unable to
\* verify.  The claims verified are the first 5 extracted ones at most, and
\* at least one: the text itself when none is extracted.
C19_OverallAssessment ==
    Assessed =>
        LET claims == endpoint.verified_claims
            n == Len(claims)
            F == Cardinality({i \in 1..n : claims[i].verdict = "FALSE"})
            M == Cardinality({i \in 1..n : claims[i].verdict = "MISLEADING"})
            T == Cardinality({i \in 1..n : claims[i].verdict = "TRUE"})
        IN /\ n >= 1 /\ n <= 5
           /\ n = IF endpoint.extracted = 0 THEN 1
                  ELSE IF endpoint.extracted < 5 THEN endpoint.extracted ELSE 5
           /\ endpoint.extracted = 0 => claims[1].claim_text = TextItself
           /\ endpoint.extracted > 0 =>
                 \A i \in 1..n : claims[i].claim_text = ClaimText(i)
           /\ endpoint.overall =
                 IF 2 * F > n THEN "likely misinformation"
                 ELSE IF 2 * (F + M) > n THEN "misleading or false information"
                 ELSE IF 2 * T > n THEN "largely factual"
                 ELSE "unable to fully verify"

\* six claims were extracted, five verified; FALSE is not a majority but
\* FALSE and MISLEADING together are
C19_Witness ==
    /\ Assessed
    /\ endpoint.extracted = 6
    /\ Len(endpoint.verified_claims) = 5
    /\ Cardinality({i \in 1..5 : endpoint.verified_claims[i].verdict = "FALSE"}) = 2
    /\ Cardinality({i \in 1..5 : endpoint.verified_claims[i].verdict = "MISLEADING"}) = 1
    /\ endpoint.overall = "misleading or false information"

\* two claims, one FALSE and one TRUE: exactly half is no majority
C19_WitnessHalf ==
    /\ Assessed
    /\ Len(endpoint.verified_claims) = 2
    /\ endpoint.verified_claims[1].verdict = "FALSE"
    /\ endpoint.verified_claims[2].verdict = "TRUE"
    /\ endpoint.overall = "unable to fully verify"

\* the sources of the verification results saved and of the claims answered
EndpointSources ==
    UNION {Range(r.supporting_sources) \cup Range(r.contradicting_sources) :
              r \in Range(endpoint.saved) \cup Range(endpoint.verified_claims)}

\* C20: every supporting and contradicting source carried in the persisted
\* VerificationResult and in the response has the credibility_score that
\* calculate_source_credibility computes from its source_url, together with
\* the matching reputation_category.
C20_SourcesEnhanced ==
    \A s \in EndpointSources :
        /\ s.credibility_score = calculate_source_credibility(s.source_url)
        /\ "reputation_category" \in DOMAIN s
        /\ s.reputation_category = ReputationCategory(s.credibility_score)


\* the item's score is the one the Similarity Scorer answered
ScoredByCapability(s) == s.has_similarity /\ s.similarity_score \in Scores

\* the item is in one of the two partitions or of the two returned lists
Partitioned(s) ==
    \/ s \in Range(supporting) \cup Range(contradicting)
    \/ /\ returned # "none"
       /\ s \in Range(result.supporting_sources) \cup Range(result.contradicting_sources)

\* C21: the lexical-overlap score never exceeds 0.5, so an item the
\* Similarity Scorer failed for is in neither partition (nor in a returned
\* list) whatever its stance, and when the scorer failed for every item of
\* an invocation that has ended, supporting_sources and
\* contradicting_sources are both empty.
C21_FallbackNeverQualifies ==
    /\ \A j \in 1..Len(all_sources) :
          LET s == all_sources[j] IN
          ScoredByFallback(s) =>
              /\ 2 * s.similarity_score.n <= s.similarity_score.d
              /\ ~Partitioned(s)
    /\ (Done /\ \A j \in 1..Len(all_sources) : ~ScoredByCapability(all_sources[j])) =>
          /\ supporting = <<>>
          /\ contradicting = <<>>
          /\ result.supporting_sources = <<>>
          /\ result.contradicting_sources = <<>>

\* the verdict was synthesized over two items the scorer failed for, one
\* supporting with the highest score the fallback gives, one contradicting
C21_Witness ==
    /\ Synthesized
    /\ Len(all_sources) = 2
    /\ \A j \in 1..2 : ScoredByFallback(all_sources[j])
    /\ all_sources[1].stance = "supports"
    /\ 2 * all_sources[1].similarity_score.n = all_sources[1].similarity_score.d
    /\ all_sources[2].stance = "contradicts"
    /\ all_sources[2].similarity_score.n > 0
    /\ result.supporting_sources = <<>>
    /\ result.contradicting_sources = <<>>
====
